---- MODULE Spec2Model ----
(***************************************************************************)
(* A model of the conducto RPC connection bundled in                       *)
(* public/libs/conducto.js: Connection (protocol core: correlation of      *)
(* requests and responses, action registry, event emission) and Client     *)
(* (transport lifecycle and the ping/pong keepalive timers).               *)
(*                                                                         *)
(* The JavaScript program is single threaded: every action below is one    *)
(* run-to-completion handler (an API call, a transport callback or a timer *)
(* callback).  Handlers are written as operators on a record holding the   *)
(* fields of the Client object, composed in the order the code runs them.  *)
(***************************************************************************)
EXTENDS Integers, Sequences, FiniteSets, TLC

\* ---------------------------------------------------------------- bounds
\* number of request()/exec()/ping calls made over one run
MaxCalls == 2
\* number of requests made by the application that serves inbound calls
MaxPending == 1
\* number of exec() calls made over one run
MaxExecs == 1
\* number of open() calls made with a callback over one run
MaxOpens == 2
\* number of Arm.exec() calls made by the application over one run
MaxArmCalls == 2

\* ---------------------------------------------------------------- values
\* JavaScript undefined (also: an absent field) and null
Undefined == "undefined"
Null == "null"
\* a payload holding a reference cycle: JSON.stringify throws on it
Cyclic == "cyclic"

Payloads == {"p1", Cyclic}
\* ids a caller may supply explicitly; "0" is also the first generated id
ExplicitIds == {"0"}
ErrVals == {Undefined, Null, "e1"}
ResVals == {Undefined, "r1"}
\* what a handler passed to define() may return
RetVals == {"false", Undefined, "true"}
\* the result a local handler computes from the payload of the call
HandlerResult(payload) == "2x" \o payload

\* JavaScript truthiness of the values used here
Truthy(v) == v \notin {Undefined, Null, "false", "zero"}

Digit(d) == <<"0", "1", "2", "3", "4", "5", "6", "7", "8", "9">>[d + 1]

\* Number.prototype.toString for a non-negative integer
RECURSIVE toString(_)
toString(n) == IF n < 10 THEN Digit(n) ELSE toString(n \div 10) \o Digit(n % 10)

VARIABLES
  hasPromise,        \* utils.Promise is defined
  transport,         \* this.transport is set
  wsState,           \* this.transport.readyState (0 connecting .. 3 closed)
  keepalive,         \* this.keepalive is nonzero
  lastId,            \* this.lastId
  autoIds,           \* the ids sendRequest has generated, in order
  responseHandlers,  \* this.responseHandlers: id -> index of the call in calls
  actions,           \* the methods this.actions holds a function for
  calls,             \* the request()/exec() calls made so far and what their callers saw
  sent,              \* the texts the last handler handed to transport.send, in order
  emitted,           \* the events emitted by the last handler, in order
  pingTimeout,       \* the timer this.pingTimeout is armed
  pongs,             \* the armed probe timers (var pong), by the call of their ping
  pingListener,      \* pingpong is a listener of 'message'
  closeOnce,         \* a once('close') listener installed by open() is waiting
  ignoreEvents,      \* this.ignoreEvents, as a set of method names
  opens,             \* the open() calls made with a callback and what their callers saw
  invoked,           \* the methods whose action function the last handler called, in order
  returned,          \* the value the last handler returned to its caller
  thrown,            \* the exception the last handler raised out to its caller
  armCalls,          \* the Arm.exec() calls the application has made: command and time
  armTimers,         \* the calls whose setTimeout timer is armed
  armStops,          \* the calls whose timer has fired and issued its stop
  armTransfers,      \* the buffers the last Arm step handed to device.controlTransfer
  armReturned        \* the value the last Arm call returned to its caller

vars == <<hasPromise, transport, wsState, keepalive, lastId, autoIds, responseHandlers,
          actions, calls, sent, emitted, pingTimeout, pongs, pingListener,
          closeOnce, ignoreEvents, opens, invoked, returned, thrown,
          armCalls, armTimers, armStops, armTransfers, armReturned>>

\* the state of the Arm, which no handler of the Client touches
armVars == <<armCalls, armTimers, armStops, armTransfers, armReturned>>

\* the state of the Client, which no method of the Arm touches
clientVars == <<hasPromise, transport, wsState, keepalive, lastId, autoIds,
                responseHandlers, actions, calls, sent, emitted, pingTimeout, pongs,
                pingListener, closeOnce, ignoreEvents, opens, invoked, returned, thrown>>

\* the fields of the object a handler runs on
This ==
  [hasPromise |-> hasPromise, transport |-> transport, wsState |-> wsState,
   keepalive |-> keepalive, lastId |-> lastId, autoIds |-> autoIds,
   responseHandlers |-> responseHandlers, actions |-> actions, calls |-> calls,
   sent |-> <<>>, emitted |-> <<>>, pingTimeout |-> pingTimeout, pongs |-> pongs,
   pingListener |-> pingListener, closeOnce |-> closeOnce,
   ignoreEvents |-> ignoreEvents, opens |-> opens, invoked |-> <<>>,
   returned |-> Undefined, thrown |-> Undefined]

\* the handler that ran leaves the object as s
Commit(s) ==
  /\ emitted' = s.emitted
  /\ sent' = s.sent
  /\ calls' = s.calls
  /\ hasPromise' = s.hasPromise
  /\ transport' = s.transport
  /\ wsState' = s.wsState
  /\ keepalive' = s.keepalive
  /\ lastId' = s.lastId
  /\ autoIds' = s.autoIds
  /\ responseHandlers' = s.responseHandlers
  /\ actions' = s.actions
  /\ pingTimeout' = s.pingTimeout
  /\ pongs' = s.pongs
  /\ pingListener' = s.pingListener
  /\ closeOnce' = s.closeOnce
  /\ ignoreEvents' = s.ignoreEvents
  /\ opens' = s.opens
  /\ invoked' = s.invoked
  /\ returned' = s.returned
  /\ thrown' = s.thrown
  /\ UNCHANGED armVars

\* ------------------------------------------------------------ utilities
\* the value utils.serialize returns when JSON.stringify throws
SerializeError == << <<"Error", "circular">> >>
\* that error, as the caller it is returned to sees it
StringifyError == "TypeError: circular structure"
\* a promise, as the caller it is returned to sees it
Promise == "promise"

\* the own properties of obj whose value JSON.stringify writes, in order
Stringify(obj) == SelectSeq(obj, LAMBDA property : property[2] # Undefined)

\* utils.serialize: the text of obj, or the error JSON.stringify threw
serialize(obj) ==
  IF \E i \in 1..Len(obj) : obj[i][2] = Cyclic
  THEN SerializeError
  ELSE Stringify(obj)

\* NewMessage: the object parseArguments builds from the arguments of a call
Message(method, payload, id, error, result) ==
  [method |-> method, payload |-> payload, id |-> id, error |-> error, result |-> result]

\* the value JSON.parse gives member key of the object written as members
member(members, key) ==
  LET found == SelectSeq(members, LAMBDA property : property[1] = key)
  IN  IF found = <<>> THEN Undefined ELSE found[1][2]

\* the object JSON.parse builds from the text members
object(members) ==
  Message(member(members, "method"), member(members, "payload"), member(members, "id"),
          member(members, "error"), member(members, "result"))

\* the value JSON.parse builds from the text of a value that is no array: an
\* object, or null, a number or a string (whose properties all read undefined)
value(text) ==
  LET o == object(text.members)
  IN  [type |-> text.type, method |-> o.method, payload |-> o.payload, id |-> o.id,
       error |-> o.error, result |-> o.result]

\* utils.parse of a frame: the error JSON.parse threw, or the value it read
\* (one value, or an array of values)
parse(data) ==
  [error |-> data.type = "garbage",
   array |-> data.type = "array",
   elements |-> [i \in 1..Len(data.items) |-> value(data.items[i])]]

\* the exception a property read of null raises
TypeError == "TypeError: Cannot read property of null"

\* ------------------------------------------------------------ events
\* pingpong that leaves the idle timer as it is
pingpongKeepsTimer(s) == s

\* Client.pingpong: restart the idle timer
pingpong(s) == [s EXCEPT !.pingTimeout = TRUE]

\* the once('open') wrapper without its latch
onceOpenNoLatch(o) ==
  [o EXCEPT !.onOpen = FALSE,
            !.cbCalls = IF o.onOpen THEN Append(@, Undefined) ELSE @,
            !.c = @ \/ o.onOpen,
            !.pOpen = FALSE,
            !.fut = IF o.pOpen /\ @ = "pending" THEN "resolved" ELSE @]

\* the listeners open() registers with once('open') for the open call o: the
\* latched wrapper of its callback, and resolve of the promise it returned
onceOpen(o) ==
  [o EXCEPT !.onOpen = FALSE,
            !.cbCalls = IF o.onOpen /\ ~o.c THEN Append(@, Undefined) ELSE @,
            !.c = @ \/ o.onOpen,
            !.pOpen = FALSE,
            !.fut = IF o.pOpen /\ @ = "pending" THEN "resolved" ELSE @]

\* the listeners open() registers with once('error'), the event carrying err
onceError(o, err) ==
  [o EXCEPT !.onError = FALSE,
            !.cbCalls = IF o.onError /\ ~o.c THEN Append(@, err) ELSE @,
            !.c = @ \/ o.onError,
            !.pError = FALSE,
            !.fut = IF o.pError /\ @ = "pending" THEN "rejected" ELSE @]

\* EventEmitter.emit, with the listeners Client.open installs
emit(s, name, payload, text) ==
  LET s1 == [s EXCEPT !.emitted = Append(@, [name |-> name, payload |-> payload,
                                             text |-> text, obj |-> <<>>])]
  IN  IF name = "message" /\ s1.pingListener THEN pingpong(s1)
      ELSE IF name = "close" /\ s1.closeOnce
           THEN [s1 EXCEPT !.pingListener = FALSE, !.closeOnce = FALSE]
      ELSE IF name = "open"
           THEN [s1 EXCEPT !.opens = [i \in DOMAIN @ |-> onceOpen(@[i])]]
      ELSE IF name = "error"
           THEN [s1 EXCEPT !.opens = [i \in DOMAIN @ |-> onceError(@[i], payload)]]
      ELSE s1

\* emit('send', obj, serialized); the model has no listener of send
emitSend(s, obj, serialized) ==
  [s EXCEPT !.emitted = Append(@, [name |-> "send", payload |-> Undefined,
                                   text |-> serialized, obj |-> obj])]

\* ------------------------------------------------------------ Connection
\* Connection.readyState
readyState(s) == IF s.transport THEN s.wsState ELSE 3

\* Connection.onError: the event carries error.data when the error has one
onError(s, error) ==
  emit(s, "error", IF Truthy(error.data) THEN error.data ELSE error.name, <<>>)

onOpen(s) == emit(s, "open", Undefined, <<>>)

onClose(s) == emit(s, "close", Undefined, <<>>)

\* WebSocket.close(): an open or connecting socket starts closing
transportClose(s) ==
  [s EXCEPT !.wsState = IF @ \in {0, 1} THEN 2 ELSE @]

\* close() that closes the transport without calling onClose
closeWithoutEvent(s) == IF s.transport THEN transportClose(s) ELSE s

\* Connection.close
close(s) ==
  LET s1 == IF s.transport THEN transportClose(s) ELSE s
  IN  onClose(s1)

\* the object sendMessage copies the fields of message into
messageObject(m) ==
  IF m.method # Undefined
  THEN << <<"method", m.method>>, <<"payload", m.payload>>, <<"id", m.id>> >>
  ELSE << <<"result", m.result>>, <<"error", m.error>>, <<"id", m.id>> >>

\* sendMessage without the readyState test
sendMessageNoReadyCheck(s, m) ==
  IF ~s.transport THEN [s EXCEPT !.returned = Undefined]
  ELSE LET obj == messageObject(m)
           serialized == serialize(obj)
       IN  IF serialized = SerializeError THEN [s EXCEPT !.returned = StringifyError]
           ELSE emitSend([s EXCEPT !.sent = Append(@, serialized),
                                   !.returned = Undefined], obj, serialized)

\* sendMessage that emits send before it looks at what serialize returned
sendMessageEmitsFirst(s, m) ==
  IF ~s.transport THEN [s EXCEPT !.returned = Undefined]
  ELSE IF readyState(s) # 1 THEN [s EXCEPT !.returned = Undefined]
  ELSE LET obj == messageObject(m)
           serialized == serialize(obj)
           s1 == emitSend(s, obj, serialized)
       IN  IF serialized = SerializeError THEN [s1 EXCEPT !.returned = StringifyError]
           ELSE [s1 EXCEPT !.sent = Append(@, serialized), !.returned = Undefined]

\* Connection.sendMessage; it returns the error serialize returned, and
\* nothing (undefined) on every other path
sendMessage(s, m) ==
  IF ~s.transport THEN [s EXCEPT !.returned = Undefined]
  ELSE IF readyState(s) # 1 THEN [s EXCEPT !.returned = Undefined]
  ELSE LET obj == messageObject(m)
           serialized == serialize(obj)
       IN  IF serialized = SerializeError THEN [s EXCEPT !.returned = StringifyError]
           ELSE emitSend([s EXCEPT !.sent = Append(@, serialized),
                                   !.returned = Undefined], obj, serialized)

\* Connection.sendResponse (it returns what sendMessage returned, as do
\* sendNotification and sendRequest)
sendResponse(s, m) ==
  sendMessage(s, [m EXCEPT !.method = Undefined, !.payload = Undefined])

\* Connection.sendNotification
sendNotification(s, m) == sendMessage(s, [m EXCEPT !.id = Undefined])

\* the id sendRequest leaves in m.id
requestId(s, m) == IF m.id # Undefined THEN m.id ELSE toString(s.lastId)

\* sendRequest that reads lastId without incrementing it
sendRequestNoIncrement(s, m) ==
  LET s1 == IF m.id # Undefined THEN s
            ELSE [s EXCEPT !.autoIds = Append(@, requestId(s, m))]
  IN  sendMessage(s1, [m EXCEPT !.id = requestId(s, m)])

\* Connection.sendRequest
sendRequest(s, m) ==
  LET s1 == IF m.id # Undefined THEN s
            ELSE [s EXCEPT !.lastId = @ + 1, !.autoIds = Append(@, requestId(s, m))]
  IN  sendMessage(s1, [m EXCEPT !.id = requestId(s, m)])

\* notify that sends its message with sendRequest
notifyAsRequest(s, method, payload) ==
  [sendRequest(s, Message(method, payload, Undefined, Undefined, Undefined))
     EXCEPT !.returned = Undefined]

\* Connection.notify; it returns nothing: what sendNotification returned is
\* dropped
notify(s, method, payload) ==
  [sendNotification(s, Message(method, payload, Undefined, Undefined, Undefined))
     EXCEPT !.returned = Undefined]

\* respond that copies error and result into the message as they come
respondBoth(s, id, error, result) ==
  [sendResponse(s, Message(Undefined, Undefined, id,
                           IF error = Null THEN Undefined ELSE error, result))
     EXCEPT !.returned = Undefined]

\* Connection.respond; it returns nothing: what sendResponse returned is
\* dropped
respond(s, id, error, result) ==
  LET m == Message(Undefined, Undefined, id,
                   IF error \notin {Null, Undefined} THEN error ELSE Undefined,
                   IF error \notin {Null, Undefined} THEN Undefined ELSE result)
  IN  [sendResponse(s, m) EXCEPT !.returned = Undefined]

\* Connection.addResponseHandler
addResponseHandler(s, id, idx) ==
  [s EXCEPT !.responseHandlers =
     [k \in DOMAIN @ \cup {id} |-> IF k = id THEN idx ELSE @[k]]]

\* Connection.getResponseHandler: the call whose handler is stored, 0 for none
getResponseHandler(s, id) ==
  IF id \in DOMAIN s.responseHandlers THEN s.responseHandlers[id] ELSE 0

\* Connection.deleteResponseHandler
deleteResponseHandler(s, id) ==
  [s EXCEPT !.responseHandlers = [k \in DOMAIN @ \ {id} |-> @[k]]]

\* the caller's callback of call idx is invoked with (err, res); the callback
\* of a ping clears its probe timer (pingpong, clearTimeout(pong))
callback(s, idx, err, res) ==
  [s EXCEPT !.calls[idx].cbCalls = Append(@, <<err, res>>),
            !.pongs = IF s.calls[idx].kind = "ping" THEN @ \ {idx} ELSE @]

\* the promise returned to the caller of call idx is settled, if still pending
settle(s, idx, how, v) ==
  IF s.calls[idx].fut = "pending"
  THEN [s EXCEPT !.calls[idx].fut = how, !.calls[idx].futVal = v]
  ELSE s

\* a completion handler that does nothing for a Response without error and
\* result
responseHandlerSkipsEmpty(s, idx, err, res) ==
  LET s1 == IF s.calls[idx].cb THEN callback(s, idx, err, res) ELSE s
      hasFuture == s.calls[idx].fut # "none"
  IN  IF err = Undefined /\ res = Undefined THEN s
      ELSE IF Truthy(err) /\ hasFuture THEN settle(s1, idx, "rejected", err)
      ELSE IF hasFuture THEN settle(s1, idx, "resolved", res)
      ELSE s1

\* the completion handler request() stores for call idx
responseHandler(s, idx, err, res) ==
  LET s1 == IF s.calls[idx].cb THEN callback(s, idx, err, res) ELSE s
      hasFuture == s.calls[idx].fut # "none"
  IN  IF Truthy(err) /\ hasFuture THEN settle(s1, idx, "rejected", err)
      ELSE IF hasFuture THEN settle(s1, idx, "resolved", res)
      ELSE s1

\* onResponse that leaves the entry in the table
onResponseKeepsEntry(s, response) ==
  LET handler == getResponseHandler(s, response.id)
  IN  IF handler # 0
      THEN responseHandler(s, handler, response.error, response.result)
      ELSE s

\* Connection.onResponse
onResponse(s, response) ==
  LET handler == getResponseHandler(s, response.id)
  IN  IF handler # 0
      THEN deleteResponseHandler(
             responseHandler(s, handler, response.error, response.result),
             response.id)
      ELSE s

\* onMessage without the ignore-list
onMessageBroadcastsAll(s, message) ==
  IF message.type = "null" THEN [s EXCEPT !.thrown = TypeError]
  ELSE IF Truthy(message.method) THEN emit(s, message.method, message.payload, <<>>)
  ELSE onResponse(s, message)

\* Connection.onMessage; reading message.method raises when message is null
onMessage(s, message) ==
  IF message.type = "null" THEN [s EXCEPT !.thrown = TypeError]
  ELSE IF Truthy(message.method) /\ message.method \notin s.ignoreEvents
  THEN emit(s, message.method, message.payload, <<>>)
  ELSE IF ~Truthy(message.method) THEN onResponse(s, message)
  ELSE s

\* what the model keeps of a decoded message: its method, if it has one
methodOf(message) == IF Truthy(message.method) THEN message.method ELSE "response"

\* the for loop of onData: onMessage on every element, in array order, until
\* one raises
RECURSIVE onMessages(_, _)
onMessages(s, messages) ==
  IF messages = <<>> \/ s.thrown # Undefined THEN s
  ELSE onMessages(onMessage(s, Head(messages)), Tail(messages))

\* the statement of onData that follows the dispatch: it is not reached when
\* the dispatch has raised
emitMessage(s, payload) ==
  IF s.thrown # Undefined THEN s ELSE emit(s, "message", payload, <<>>)

\* onData that goes on to emit message when the frame does not parse
onDataEmitsOnError(s, data) ==
  LET message == parse(data)
  IN  IF message.error THEN emit(s, "message", "error", <<>>)
      ELSE IF message.array
           THEN emitMessage(onMessages(s, message.elements), "array")
           ELSE emitMessage(onMessage(s, message.elements[1]),
                            methodOf(message.elements[1]))

\* onData that dispatches the first element of an array only
onDataFirstElement(s, data) ==
  LET message == parse(data)
  IN  IF message.error THEN s
      ELSE emitMessage(onMessage(s, message.elements[1]),
                       IF message.array THEN "array" ELSE methodOf(message.elements[1]))

\* Connection.onData; of the decoded frame that the message event carries the
\* model keeps whether it is an array, and the method of a single message
onData(s, data) ==
  LET message == parse(data)
  IN  IF message.error THEN s
      ELSE IF message.array
           THEN emitMessage(onMessages(s, message.elements), "array")
           ELSE emitMessage(onMessage(s, message.elements[1]),
                            methodOf(message.elements[1]))

\* Connection.request, made as call idx with arguments m; what sendRequest
\* returned is dropped, and the call returns a promise or nothing
request(s, idx, m) ==
  LET id == requestId(s, m)
      s0 == sendRequest(s, m)
      s1 == [s0 EXCEPT !.calls[idx].id = id,
                       !.calls[idx].transmitted = (Len(s0.sent) > Len(s.sent)),
                       !.returned = Undefined]
  IN  IF ~s.hasPromise /\ s.calls[idx].cb THEN s1
      ELSE [addResponseHandler(s1, id, idx) EXCEPT
              !.calls[idx].fut = IF s.hasPromise THEN "pending" ELSE "none",
              !.calls[idx].futVal = Undefined,
              !.returned = IF s.hasPromise THEN Promise ELSE Undefined]

\* send without the else: with a callback it makes the request and goes on
\* to send the notification too
sendNotifiesToo(s, idx, method, payload, cb) ==
  LET s1 == IF cb
            THEN request(s, idx, Message(method, payload, Undefined, Undefined, Undefined))
            ELSE s
  IN  [notify(s1, method, payload) EXCEPT !.returned = Undefined]

\* Connection.send: a request when a callback is passed (as call idx), else a
\* notification
send(s, idx, method, payload, cb) ==
  LET s1 == IF cb
            THEN request(s, idx, Message(method, payload, Undefined, Undefined, Undefined))
            ELSE notify(s, method, payload)
  IN  [s1 EXCEPT !.returned = Undefined]

\* a completion function that drops the result (cb(null), resolve())
completionWithoutResult(s, idx, err, res) ==
  IF Truthy(err)
  THEN settle(IF s.calls[idx].cb THEN callback(s, idx, err, Undefined) ELSE s,
              idx, "rejected", err)
  ELSE settle(IF s.calls[idx].cb THEN callback(s, idx, Null, Undefined) ELSE s,
              idx, "resolved", Undefined)

\* the completion function define() hands to the handler as o.callback
completion(s, idx, err, res) ==
  IF Truthy(err)
  THEN settle(IF s.calls[idx].cb THEN callback(s, idx, err, Undefined) ELSE s,
              idx, "rejected", err)
  ELSE settle(IF s.calls[idx].cb THEN callback(s, idx, Null, res) ELSE s,
              idx, "resolved", res)

\* the function define() stores in this.actions, bound to a handler behaving as b
actionFn(s, idx, b, payload) ==
  LET s1 == [s EXCEPT !.calls[idx].fut = IF s.hasPromise THEN "pending" ELSE "none"]
  IN  IF b.completes THEN completion(s1, idx, b.err, HandlerResult(payload)) ELSE s1

\* what that function returns: false, or the promise (undefined without Promise)
actionReturn(s, b) ==
  IF b.ret = "false" THEN "false"
  ELSE IF s.hasPromise THEN Promise ELSE Undefined

\* exec that returns h only when h is truthy (if (h) return h)
execReturnsTruthy(s, idx, m, b) ==
  IF m.method \in s.actions
  THEN LET h == actionReturn(s, b)
           s1 == [actionFn(s, idx, b, m.payload) EXCEPT !.calls[idx].h = h,
                                                        !.invoked = Append(@, m.method)]
       IN  IF Truthy(h) THEN [s1 EXCEPT !.returned = h]
           ELSE request([s1 EXCEPT !.calls[idx].fut = "none",
                                   !.calls[idx].futVal = Undefined], idx, m)
  ELSE request(s, idx, m)

\* Connection.exec, made as call idx with arguments m; b is how the handler
\* bound to m.method behaves on this call
exec(s, idx, m, b) ==
  IF m.method \in s.actions
  THEN LET h == actionReturn(s, b)
           s1 == [actionFn(s, idx, b, m.payload) EXCEPT !.calls[idx].h = h,
                                                        !.invoked = Append(@, m.method)]
       IN  IF h # "false" THEN [s1 EXCEPT !.returned = h]
           ELSE request([s1 EXCEPT !.calls[idx].fut = "none",
                                   !.calls[idx].futVal = Undefined], idx, m)
  ELSE request(s, idx, m)

\* Connection.define
define(s, method) == [s EXCEPT !.actions = @ \cup {method}]

\* a call enters request()/exec(): what its caller passed (cb), what the call
\* did (the id of its request, whether the request was handed to the
\* transport, what the action function returned to exec) and what its caller
\* has observed (the invocations of its callback and the promise returned to it)
newCall(s, kind, cb) ==
  [s EXCEPT !.calls = Append(@, [kind |-> kind, id |-> Undefined,
                                 transmitted |-> FALSE, h |-> "none", cb |-> cb,
                                 cbCalls |-> <<>>, fut |-> "none", futVal |-> Undefined])]

\* ------------------------------------------------------------ Client
\* Client.handleOption, for the keepalive option
handleOption(s, opt) ==
  IF opt = "on" THEN [s EXCEPT !.keepalive = TRUE]
  ELSE IF opt = "off" THEN [s EXCEPT !.keepalive = FALSE]
  ELSE s

\* an open() call made with a callback enters open(): the latch c, the once
\* listeners registered for it (onOpen, onError for the callback, pOpen,
\* pError for the promise) and what its caller has observed (the arguments
\* of the invocations of the callback, the promise)
newOpen(s) ==
  [s EXCEPT !.opens = Append(@, [c |-> FALSE, cbCalls |-> <<>>,
                                 onOpen |-> TRUE, onError |-> TRUE,
                                 pOpen |-> s.hasPromise, pError |-> s.hasPromise,
                                 fut |-> IF s.hasPromise THEN "pending" ELSE "none"])]

\* Client.open; the caller of an open() without callback drops the promise
open(s, opt, cb) ==
  LET s1 == handleOption(s, opt)
      s2 == IF cb THEN newOpen(s1) ELSE s1
      s3 == [s2 EXCEPT !.transport = TRUE, !.wsState = 0,
                       !.returned = IF s.hasPromise THEN Promise ELSE Undefined]
  IN  IF s3.keepalive
      THEN [s3 EXCEPT !.pingListener = TRUE, !.closeOnce = TRUE]
      ELSE s3

\* the callback of the idle timer set by pingpong, sending its ping as call idx
pingTimeoutCallback(s, idx) ==
  LET s1 == [s EXCEPT !.pingTimeout = FALSE, !.pongs = @ \cup {idx}]
  IN  send(s1, idx, "ping", Undefined, TRUE)

\* the callback of the probe timer pong
pongCallback(s, idx) == close([s EXCEPT !.pongs = @ \ {idx}])

\* ------------------------------------------------------------ Arm
\* the table of commands.js: the buffer of every named command
commands ==
  [name \in {"base-anti-clockwise", "base-right"} |-> <<0, 1, 0>>] @@
  [name \in {"base-clockwise", "base-left"} |-> <<0, 2, 0>>] @@
  ("shoulder-up" :> <<64, 0, 0>>) @@ ("shoulder-down" :> <<128, 0, 0>>) @@
  ("elbow-up" :> <<16, 0, 0>>) @@ ("elbow-down" :> <<32, 0, 0>>) @@
  ("wrist-up" :> <<4, 0, 0>>) @@ ("wrist-down" :> <<8, 0, 0>>) @@
  [name \in {"grip-open", "hand-open"} |-> <<2, 0, 0>>] @@
  [name \in {"grip-close", "hand-close"} |-> <<1, 0, 0>>] @@
  ("light-on" :> <<0, 0, 1>>) @@
  [name \in {"light-off", "stop"} |-> <<0, 0, 0>>]

\* the cmd argument of exec: the name of a command, or an array of its own
Named(name) == [array |-> FALSE, name |-> name, bytes |-> <<>>]
Array(bytes) == [array |-> TRUE, name |-> "", bytes |-> bytes]

\* the value returned for a name the table does not hold
UnknownCommand == "Error: unknown command"

\* the fields of the Arm a method runs on
ThisArm ==
  [calls |-> armCalls, timers |-> armTimers, stops |-> armStops,
   transfers |-> <<>>, returned |-> Undefined]

\* the method that ran leaves the Arm as a
CommitArm(a) ==
  /\ armCalls' = a.calls
  /\ armTimers' = a.timers
  /\ armStops' = a.stops
  /\ armTransfers' = a.transfers
  /\ armReturned' = a.returned
  /\ UNCHANGED clientVars

\* var c: the array exec sends, with the object it is (ref: the entry of the
\* table, or the argument itself), and whether there is one at all
lookup(cmd) ==
  IF cmd.array THEN [found |-> TRUE, ref |-> "argument", bytes |-> cmd.bytes]
  ELSE IF cmd.name \in DOMAIN commands
       THEN [found |-> TRUE, ref |-> cmd.name, bytes |-> commands[cmd.name]]
       ELSE [found |-> FALSE, ref |-> "", bytes |-> <<>>]

\* exec that tells stop from the other commands by the bytes of the buffer
Arm_execComparesBytes(a, idx, cmd, t) ==
  LET c == lookup(cmd)
  IN  IF ~c.found THEN [a EXCEPT !.returned = UnknownCommand]
      ELSE LET a1 == [a EXCEPT !.transfers = Append(@, c.bytes)]
           IN  IF t # 0 /\ c.bytes # commands["stop"]
               THEN [a1 EXCEPT !.timers = @ \cup {idx}]
               ELSE a1

\* Arm.prototype.exec, run for the application's call idx (by the call
\* itself, or by the stop() of its timer); t is 0 when it is not passed
Arm_exec(a, idx, cmd, t) ==
  LET c == lookup(cmd)
  IN  IF ~c.found THEN [a EXCEPT !.returned = UnknownCommand]
      ELSE LET a1 == [a EXCEPT !.transfers = Append(@, c.bytes)]
           IN  IF t # 0 /\ c.ref # "stop"
               THEN [a1 EXCEPT !.timers = @ \cup {idx}]
               ELSE a1

\* Arm.prototype.stop
Arm_stop(a, idx) == Arm_exec(a, idx, Named("stop"), 0)

\* the callback exec hands to setTimeout for call idx
Arm_timeout(a, idx) ==
  LET a1 == [a EXCEPT !.timers = @ \ {idx}]
      a2 == Arm_stop(a1, idx)
  IN  [a2 EXCEPT !.stops = IF a2.transfers # <<>> THEN @ \cup {idx} ELSE @,
                 !.returned = Undefined]

\* the commands and times the application calls exec with
ArmCommands ==
  {Named("base-clockwise"), Named("light-off"), Named("stop"), Named("fly"),
   Array(<<0, 0, 1>>)}
ArmTimes == {0, 500}

\* ------------------------------------------------------------ the frames a peer sends
FrameIds == {toString(n) : n \in 0..(MaxCalls - 1)} \cup ExplicitIds

\* a response carries a result or an error
ResponseBodies == {<<Undefined, "r1">>, <<"e1", Undefined>>}

Responses ==
  {Message(Undefined, Undefined, id, b[1], b[2]) : id \in FrameIds, b \in ResponseBodies}

Notifications == {Message("double", "p1", Undefined, Undefined, Undefined)}

Frames == Responses \cup Notifications

\* the JSON text a peer writes for message m
JSON(m) ==
  Stringify(<< <<"method", m.method>>, <<"payload", m.payload>>, <<"id", m.id>>,
               <<"error", m.error>>, <<"result", m.result>> >>)

\* the text of a JSON value that is no array: an object with its members, or
\* null, a number or a string
Text(type, members) == [type |-> type, members |-> members]

\* a frame whose text is one object, an array of objects, or not JSON at all
ObjectFrame(m) == [type |-> "object", items |-> <<Text("object", JSON(m))>>]
ArrayFrame(ms) ==
  [type |-> "array", items |-> [i \in 1..Len(ms) |-> Text("object", JSON(ms[i]))]]
Garbage == [type |-> "garbage", items |-> <<>>]

\* a frame whose text is null, a number or a string, and the arrays that
\* hold such a value before or after a call
Scalars == {"null", "number", "string"}
ScalarFrame(type) == [type |-> type, items |-> <<Text(type, <<>>)>>]
MixedFrames ==
  {[type |-> "array",
    items |-> IF first THEN <<Text(type, <<>>), Text("object", call)>>
              ELSE <<Text("object", call), Text(type, <<>>)>>] :
     type \in Scalars, first \in BOOLEAN,
     call \in {<< <<"method", "move">>, <<"payload", "p1">> >>}}

\* inbound Requests and Notifications
Methods == {"double", "move"}
InboundCalls ==
  {Message(method, "p1", id, Undefined, Undefined) :
     method \in Methods, id \in {Undefined, "9"}}

\* the elements of the array frames
Elements ==
  {Message("double", "p1", Undefined, Undefined, Undefined),
   Message("move", "p1", "9", Undefined, Undefined),
   Message(Undefined, Undefined, "0", Undefined, "r1")}

Batches == {<<a, b>> : a \in Elements, b \in Elements}

\* the errors a transport reports: with and without a data property
ErrorEvents == {[name |-> "error1", data |-> Undefined], [name |-> "error2", data |-> "data2"]}

\* messages that carry a method together with a result or an error, under
\* the id of the first request
InvalidMessages ==
  {Message("double", "p1", "0", b[1], b[2]) : b \in ResponseBodies}

\* Responses that carry the id of a request and neither result nor error
EmptyResponses ==
  {Message(Undefined, Undefined, toString(n), Undefined, Undefined) :
     n \in 0..(MaxPending - 1)}

\* the behaviours of the handlers passed to define(): whether the handler
\* invokes o.callback (with err and a computed result) and what it returns
Behaviours ==
  {[completes |-> c, err |-> Null, ret |-> r] : c \in BOOLEAN, r \in RetVals}

\* ------------------------------------------------------------ the state machine
Init ==
  /\ hasPromise \in BOOLEAN
  /\ transport = FALSE
  /\ wsState = 3
  /\ keepalive \in BOOLEAN
  /\ lastId = 0
  /\ autoIds = <<>>
  /\ responseHandlers = [k \in {} |-> 0]
  /\ actions = {}
  /\ calls = <<>>
  /\ sent = <<>>
  /\ emitted = <<>>
  /\ pingTimeout = FALSE
  /\ pongs = {}
  /\ pingListener = FALSE
  /\ closeOnce = FALSE
  /\ ignoreEvents = {}
  /\ opens = <<>>
  /\ invoked = <<>>
  /\ returned = Undefined
  /\ thrown = Undefined
  /\ armCalls = <<>>
  /\ armTimers = {}
  /\ armStops = {}
  /\ armTransfers = <<>>
  /\ armReturned = Undefined

\* client.open(options, callback), the options setting keepalive as opt says
OpenWith(opt, cb) ==
  /\ cb => Len(opens) < MaxOpens
  /\ Commit(open(This, opt, cb))

Open == \E opt \in {"none", "on", "off"}, cb \in BOOLEAN : OpenWith(opt, cb)

\* the transport reports error
TransportErrorWith(error) ==
  /\ transport
  /\ Commit(onError(This, error))

TransportError == \E error \in ErrorEvents : TransportErrorWith(error)

\* the transport reports that the socket is open
TransportOpen ==
  /\ transport /\ wsState = 0
  /\ Commit(onOpen([This EXCEPT !.wsState = 1]))

\* the transport reports that the socket has closed
TransportClosed ==
  /\ transport /\ wsState \in {0, 1, 2}
  /\ Commit(onClose([This EXCEPT !.wsState = 3]))

\* the transport delivers a frame whose text is data
DeliverData(data) ==
  /\ transport /\ wsState \in {1, 2}
  /\ Commit(onData(This, data))

\* the transport delivers the text of the one message frame
Deliver(frame) == DeliverData(ObjectFrame(frame))

OnData == \E frame \in Frames : Deliver(frame)

\* the Responses to the requests of that application
PendingResponses ==
  {Message(Undefined, Undefined, toString(n), b[1], b[2]) :
     n \in 0..(MaxPending - 1), b \in ResponseBodies}

\* the frames of a peer that also sends calls, batches and broken text
OnFrame ==
  \/ \E frame \in PendingResponses \cup InboundCalls : Deliver(frame)
  \/ \E batch \in Batches : DeliverData(ArrayFrame(batch))
  \/ DeliverData(Garbage)
  \/ \E type \in Scalars : DeliverData(ScalarFrame(type))
  \/ \E frame \in MixedFrames : DeliverData(frame)
  \/ \E frame \in InvalidMessages \cup EmptyResponses : Deliver(frame)

\* Notifications whose method is the name of an event of the connection itself
EventNamedCalls ==
  {Message(method, "p1", Undefined, Undefined, Undefined) : method \in {"close", "message"}}

\* the peer sends such a Notification
OnEventNamedCall == \E frame \in EventNamedCalls : Deliver(frame)

\* the application puts method on the ignore-list
IgnoreEvent == \E method \in Methods : Commit([This EXCEPT !.ignoreEvents = @ \cup {method}])

\* connection.close()
Close == Commit(close(This))

\* connection.request(method, payload, cb), or request({method, payload, id}, cb)
\* when id is given
RequestWith(id, payload, cb) ==
  /\ Len(calls) < MaxCalls
  /\ LET idx == Len(calls) + 1
     IN  Commit(request(newCall(This, "request", cb), idx,
                        Message("double", payload, id, Undefined, Undefined)))

Request ==
  \E id \in ExplicitIds \cup {Undefined}, payload \in Payloads, cb \in BOOLEAN :
    RequestWith(id, payload, cb)

\* connection.notify(method, payload)
NotifyWith(payload) == Commit(notify(This, "double", payload))

Notify == \E payload \in Payloads : NotifyWith(payload)

\* connection.respond(id, error, result)
RespondWith(id, error, result) == Commit(respond(This, id, error, result))

Respond ==
  \E id \in ExplicitIds, error \in ErrVals, result \in ResVals \cup {Cyclic} :
    RespondWith(id, error, result)

\* connection.send(method, payload, cb)
SendWith(payload, cb) ==
  /\ cb => Len(calls) < MaxCalls
  /\ LET idx == IF cb THEN Len(calls) + 1 ELSE 0
         s == IF cb THEN newCall(This, "request", cb) ELSE This
     IN  Commit(send(s, idx, "double", payload, cb))

Send == \E payload \in Payloads, cb \in BOOLEAN : SendWith(payload, cb)

\* connection.exec(method, payload, cb), the handler of method behaving as b
ExecWith(payload, cb, b) ==
  /\ Len(calls) < MaxExecs
  /\ LET idx == Len(calls) + 1
     IN  Commit(exec(newCall(This, "exec", cb), idx,
                     Message("double", payload, Undefined, Undefined, Undefined), b))

Exec == \E payload \in Payloads, cb \in BOOLEAN, b \in Behaviours : ExecWith(payload, cb, b)

\* connection.define(method, handler)
Define == Commit(define(This, "double"))

\* arm.exec(cmd, t)
ArmExecWith(cmd, t) ==
  /\ Len(armCalls) < MaxArmCalls
  /\ LET idx == Len(armCalls) + 1
     IN  CommitArm(Arm_exec([ThisArm EXCEPT !.calls = Append(@, [cmd |-> cmd, t |-> t])],
                            idx, cmd, t))

ArmExec == \E cmd \in ArmCommands, t \in ArmTimes : ArmExecWith(cmd, t)

\* arm.stop(), as the signal handlers of the command line program call it
ArmStop == CommitArm(Arm_stop(ThisArm, 0))

\* the timer exec set for call idx fires
ArmTimeoutOf(idx) ==
  /\ idx \in armTimers
  /\ CommitArm(Arm_timeout(ThisArm, idx))

ArmTimeout == \E idx \in 1..MaxArmCalls : ArmTimeoutOf(idx)

\* the idle timer this.pingTimeout fires
PingTimeout ==
  /\ pingTimeout
  /\ Len(calls) < MaxCalls
  /\ LET idx == Len(calls) + 1
     IN  Commit(pingTimeoutCallback(newCall(This, "ping", TRUE), idx))

\* the probe timer pong of the ping sent as call idx fires
PongTimeoutOf(idx) ==
  /\ idx \in pongs
  /\ Commit(pongCallback(This, idx))

PongTimeout == \E idx \in 1..Len(calls) : PongTimeoutOf(idx)

Next ==
  \/ Open
  \/ TransportOpen
  \/ TransportClosed
  \/ OnData
  \/ Close
  \/ Request
  \/ Notify
  \/ Respond
  \/ Send
  \/ Exec
  \/ Define
  \/ PingTimeout
  \/ PongTimeout
  \/ TransportError
  \/ OnFrame
  \/ IgnoreEvent
  \/ OnEventNamedCall
  \/ ArmExec
  \/ ArmStop
  \/ ArmTimeout

Spec == Init /\ [][Next]_vars

\* a client constructed with keepalive: 0 and opened without options
InitPlain == Init /\ keepalive = FALSE

OpenPlain == OpenWith("none", FALSE)

\* client.open(options) without a callback
OpenOption == \E opt \in {"none", "on", "off"} : OpenWith(opt, FALSE)

\* client.open(callback)
OpenCallback == OpenWith("none", TRUE)

\* a caller that makes requests (no local actions) and a peer that answers,
\* keepalive off
NextConnection ==
  \/ OpenPlain
  \/ TransportOpen
  \/ TransportClosed
  \/ OnData
  \/ Close
  \/ Request

SpecConnection == InitPlain /\ [][NextConnection]_vars

\* a caller that defines local actions and calls exec, keepalive off
NextExec ==
  \/ OpenPlain
  \/ TransportOpen
  \/ TransportClosed
  \/ OnData
  \/ Close
  \/ Exec
  \/ Define

SpecExec == InitPlain /\ [][NextExec]_vars

\* a client whose keepalive timers fire; the only requests are its pings
NextKeepalive ==
  \/ OpenOption
  \/ TransportOpen
  \/ TransportClosed
  \/ OnData
  \/ Close
  \/ PingTimeout
  \/ PongTimeout
  \/ OnEventNamedCall

SpecKeepalive == Init /\ [][NextKeepalive]_vars

\* connection.request(method, payload, cb) with a payload that serializes
RequestPlain ==
  /\ Len(calls) < MaxPending
  /\ RequestWith(Undefined, "p1", TRUE)

\* connection.request(method, payload, cb) with any payload
RequestPayload ==
  \E payload \in Payloads : Len(calls) < MaxPending /\ RequestWith(Undefined, payload, TRUE)

\* a caller that uses every sending method of the Connection API, keepalive
\* off; nothing is delivered to it
NextOutbound ==
  \/ OpenPlain
  \/ TransportOpen
  \/ TransportClosed
  \/ Close
  \/ RequestPayload
  \/ Notify
  \/ Respond
  \/ Send

SpecOutbound == InitPlain /\ [][NextOutbound]_vars

\* a peer that sends calls, batches and broken text to a connection whose
\* application defines actions and ignores events, keepalive off
NextInbound ==
  \/ OpenPlain
  \/ TransportOpen
  \/ TransportClosed
  \/ Close
  \/ OnFrame
  \/ RequestPlain
  \/ Define
  \/ IgnoreEvent

SpecInbound == InitPlain /\ [][NextInbound]_vars

\* a caller that opens with a callback, and a transport that reports errors
NextOpen ==
  \/ OpenCallback
  \/ OpenPlain
  \/ TransportOpen
  \/ TransportError
  \/ TransportClosed
  \/ Close

SpecOpen == InitPlain /\ [][NextOpen]_vars

\* the Arm driven by an application, with timers that fire: a timer that is
\* armed is run by the event loop after its delay
NextArm ==
  \/ ArmExec
  \/ ArmStop
  \/ ArmTimeout

SpecArm ==
  /\ InitPlain
  /\ [][NextArm]_vars
  /\ \A idx \in 1..MaxArmCalls : WF_vars(ArmTimeoutOf(idx))

\* ------------------------------------------------------------ correlation
\* what every step of onData shows: it ends by emitting message
DataStep == emitted' # <<>> /\ emitted'[Len(emitted')].name = "message"

\* what every step of exec with callback cb and a handler behaving as b
\* shows: it adds an exec call with that callback and that returned value
ExecStep(cb, b) ==
  /\ Len(calls') = Len(calls) + 1
  /\ calls'[Len(calls')].kind = "exec"
  /\ calls'[Len(calls')].cb = cb
  /\ calls'[Len(calls')].h = actionReturn(This, b)

\* call i has a request handed to the transport and nothing completed it yet
Outstanding(i) ==
  /\ calls[i].transmitted
  /\ calls[i].cbCalls = <<>>
  /\ calls[i].fut \in {"none", "pending"}

\* this step completes call i with the error and result of response f
CompletedBy(i, f) ==
  /\ calls[i].cb => calls'[i].cbCalls = <<<<f.error, f.result>>>>
  /\ calls[i].fut = "pending" =>
       IF Truthy(f.error)
       THEN calls'[i].fut = "rejected" /\ calls'[i].futVal = f.error
       ELSE calls'[i].fut = "resolved" /\ calls'[i].futVal = f.result

\* C1: whenever a Response is delivered, every outstanding request carrying
\* the id of the Response is completed by this delivery with the error and
\* result of the Response, and no other call is touched.
C1_ResponseCompletesItsRequest ==
  [][DataStep => \A f \in Responses : Deliver(f) =>
       \A i \in 1..Len(calls) :
         IF calls[i].id # f.id THEN calls'[i] = calls[i]
         ELSE Outstanding(i) => CompletedBy(i, f)]_vars

\* C2: delivering a Response whose id is in the Correlation Table removes the
\* entry; delivering one whose id is not in the table invokes no completion
\* handler; and no callback is ever invoked a second time.
C2_AtMostOnce ==
  /\ [][DataStep => \A f \in Responses : Deliver(f) =>
          IF f.id \in DOMAIN responseHandlers
          THEN /\ f.id \notin DOMAIN responseHandlers'
               /\ \A i \in 1..Len(calls) :
                    i # responseHandlers[f.id] => calls'[i] = calls[i]
          ELSE calls' = calls /\ responseHandlers' = responseHandlers]_vars
  /\ [](\A i \in 1..Len(calls) : Len(calls[i].cbCalls) <= 1)

\* a request was completed by its Response and its entry is gone, with the
\* connection still open to deliver a second Response for the same id
C2_Witness ==
  /\ transport /\ wsState = 1
  /\ \E i \in 1..Len(calls) :
       /\ Len(calls[i].cbCalls) = 1
       /\ calls[i].id \notin DOMAIN responseHandlers

\* C3: close() completes every pending request with an error.
C3_CloseFailsPending ==
  [][Close =>
       \A id \in DOMAIN responseHandlers :
         LET i == responseHandlers[id]
         IN  /\ calls[i].cb =>
                  /\ Len(calls'[i].cbCalls) = Len(calls[i].cbCalls) + 1
                  /\ Truthy(calls'[i].cbCalls[Len(calls'[i].cbCalls)][1])
             /\ calls[i].fut = "pending" => calls'[i].fut = "rejected"]_vars

\* no other call made so far carries the id of call i
UniqueId(i) == \A j \in 1..Len(calls) : j # i => calls[j].id # calls[i].id

\* C4: when the Response carrying the id of an outstanding request made with
\* a callback arrives, the callback is invoked with the error and result of
\* the Response.
C4_CallbackInvoked ==
  [][DataStep => \A f \in Responses : Deliver(f) =>
       \A i \in 1..Len(calls) :
         (Outstanding(i) /\ UniqueId(i) /\ calls[i].cb /\ calls[i].id = f.id)
           => calls'[i].cbCalls = <<<<f.error, f.result>>>>]_vars

\* C5: an entry of the Correlation Table is never overwritten: as long as an
\* id stays in the table it maps to the same request.
C5_NoOverwrite ==
  [][\A id \in DOMAIN responseHandlers \cap DOMAIN responseHandlers' :
       responseHandlers'[id] = responseHandlers[id]]_vars

\* C6: the ids generated by sendRequest are "0", "1", "2", ... in call order,
\* pairwise distinct.
C6_GeneratedIds ==
  /\ \A i \in 1..Len(autoIds) : autoIds[i] = Digit(i - 1)
  /\ \A i, j \in 1..Len(autoIds) : i # j => autoIds[i] # autoIds[j]

\* as many ids as the bound allows have been generated
C6_Witness == Len(autoIds) = MaxCalls /\ Len(autoIds) >= 2

\* C7: a handler that starts while the connection is not open hands nothing
\* to the transport.
C7_NoSendUnlessOpen ==
  [][readyState(This) # 1 => sent' = <<>>]_vars

\* a request was made while the socket was closing: it got its id and
\* nothing was handed to the transport
C7_Witness ==
  /\ transport /\ wsState = 2
  /\ sent = <<>> /\ emitted = <<>>
  /\ calls # <<>>
  /\ calls[Len(calls)].id # Undefined
  /\ ~calls[Len(calls)].transmitted

\* ------------------------------------------------------------ local actions
\* the text of the request exec falls through to, with payload p
RequestText(p) ==
  << <<"method", "double">>, <<"payload", p>>, <<"id", Digit(lastId)>> >>

\* C8 as stated: with a handler registered, a false-like return value of the
\* handler suppresses the network call, and any other return value makes exec
\* fall through to request, which is transmitted on an open connection.
C8_FalseLikeSuppresses ==
  [][("double" \in actions /\ Len(calls') = Len(calls) + 1) =>
     \A p \in Payloads, cb \in BOOLEAN, b \in Behaviours :
       (ExecStep(cb, b) /\ ExecWith(p, cb, b)) =>
         IF ~Truthy(b.ret)
         THEN sent' = <<>>
         ELSE (readyState(This) = 1 /\ p # Cyclic) => sent' = <<RequestText(p)>>]_vars

\* C8 amended: with a handler registered, exec falls through to request
\* exactly when the handler returns false (the request then gets the next id
\* and is handed to the transport if the connection is open and the message
\* serializes); for any other return value no request is made: nothing is
\* handed to the transport, no id is consumed and no entry is registered.
C8_FalseFallsThrough ==
  [][("double" \in actions /\ Len(calls') = Len(calls) + 1) =>
     \A p \in Payloads, cb \in BOOLEAN, b \in Behaviours :
       (ExecStep(cb, b) /\ ExecWith(p, cb, b)) =>
         IF b.ret = "false"
         THEN /\ calls'[Len(calls')].id = Digit(lastId)
              /\ lastId' = lastId + 1
              /\ sent' = IF readyState(This) = 1 /\ p # Cyclic
                         THEN <<RequestText(p)>> ELSE <<>>
         ELSE /\ sent' = <<>>
              /\ calls'[Len(calls')].id = Undefined
              /\ lastId' = lastId
              /\ responseHandlers' = responseHandlers]_vars

\* an exec whose handler returned false was transmitted as a request
C8_Witness ==
  /\ invoked = <<"double">>
  /\ sent = << << <<"method", "double">>, <<"payload", "p1">>, <<"id", "0">> >> >>
  /\ calls[Len(calls)].kind = "exec" /\ calls[Len(calls)].h = "false"
  /\ calls[Len(calls)].transmitted

\* this step delivers r to the caller of the call it adds
DeliversLocally(r) ==
  LET c == calls'[Len(calls')]
  IN  /\ c.cb => c.cbCalls = <<<<Null, r>>>>
      /\ hasPromise => c.fut = "resolved" /\ c.futVal = r

\* C9 as stated: when the handler invokes its completion function with
\* (null, r), exec delivers r to the caller and hands nothing to the transport.
C9_LocalCompletion ==
  [][("double" \in actions /\ Len(calls') = Len(calls) + 1) =>
     \A p \in Payloads, cb \in BOOLEAN, b \in Behaviours :
       (ExecStep(cb, b) /\ ExecWith(p, cb, b) /\ b.completes) =>
         sent' = <<>> /\ DeliversLocally(HandlerResult(p))]_vars

\* C9 amended: the same, for a handler that returns anything but false.
C9_LocalCompletionUnlessFalse ==
  [][("double" \in actions /\ Len(calls') = Len(calls) + 1) =>
     \A p \in Payloads, cb \in BOOLEAN, b \in Behaviours :
       (ExecStep(cb, b) /\ ExecWith(p, cb, b) /\ b.completes /\ b.ret # "false") =>
         sent' = <<>> /\ DeliversLocally(HandlerResult(p))]_vars

\* an exec on an open connection was completed by its handler: the caller got
\* the computed result through its callback and its promise, without a request
C9_Witness ==
  /\ transport /\ wsState = 1 /\ sent = <<>>
  /\ \E i \in 1..Len(calls) :
       /\ calls[i].kind = "exec" /\ calls[i].h = Promise
       /\ calls[i].id = Undefined
       /\ calls[i].cbCalls = <<<<Null, HandlerResult("p1")>>>>
       /\ calls[i].fut = "resolved" /\ calls[i].futVal = HandlerResult("p1")

\* ------------------------------------------------------------ keepalive
Emitted(name) == \E k \in 1..Len(emitted') : emitted'[k].name = name

\* C10: when the probe timer of a ping fires the transport is closed and a
\* close event is emitted; and an armed probe timer goes away only by firing
\* or by the callback of its ping being invoked with the Response.
C10_ProbeTimeoutCloses ==
  /\ [][\A idx \in 1..Len(calls) : PongTimeoutOf(idx) =>
          /\ transport' /\ wsState' \in {2, 3}
          /\ Emitted("close")]_vars
  /\ [][\A idx \in pongs : idx \notin pongs' =>
          \/ calls'[idx].cbCalls # calls[idx].cbCalls
          \/ wsState' \in {2, 3} /\ Emitted("close")]_vars

\* a ping was handed to the transport, its callback was never invoked, its
\* probe timer has fired: the socket is closing and close was just emitted
C10_Witness ==
  /\ transport /\ wsState = 2
  /\ Len(emitted) = 1 /\ emitted[1].name = "close"
  /\ \E idx \in 1..Len(calls) :
       /\ calls[idx].kind = "ping" /\ calls[idx].transmitted
       /\ calls[idx].cbCalls = <<>>
       /\ idx \notin pongs

\* C11: with keepalive on, a Response that answers a transmitted ping while
\* its probe timer is armed disarms the timer, so that the probe timer of an
\* answered ping never fires and never closes the connection, with or without
\* a promise primitive.
C11_AnsweredPingKeepsOpen ==
  [][DataStep => \A f \in Responses : Deliver(f) =>
       \A idx \in pongs :
         (calls[idx].transmitted /\ calls[idx].id = f.id) => idx \notin pongs']_vars

\* ------------------------------------------------------------ open
\* C12: the callback of every open() call is invoked by the first open or
\* error event after the call (without argument by open, with the error the
\* event carries by error), and is never invoked a second time.
C12_OpenCallbackOnce ==
  /\ [][TransportOpen =>
          \A i \in 1..Len(opens) :
            opens[i].cbCalls = <<>> => opens'[i].cbCalls = <<Undefined>>]_vars
  /\ [][\A error \in ErrorEvents : TransportErrorWith(error) =>
          \A i \in 1..Len(opens) :
            opens[i].cbCalls = <<>> =>
              /\ opens'[i].cbCalls = <<emitted'[1].payload>>
              /\ emitted'[1].payload =
                   IF error.data # Undefined THEN error.data ELSE error.name]_vars
  /\ [](\A i \in 1..Len(opens) : Len(opens[i].cbCalls) <= 1)

\* the callback of an open() call was invoked with the error of an error
\* event, and an open event came after it: both listeners are gone
C12_Witness ==
  \E i \in 1..Len(opens) :
    /\ opens[i].cbCalls = <<"data2">>
    /\ ~opens[i].onOpen /\ ~opens[i].onError
    /\ emitted # <<>> /\ emitted[1].name = "open"

\* ------------------------------------------------------------ inbound frames
\* C13: a frame that fails to decode is dropped: the step emits no event,
\* invokes no callback and settles no promise, leaves the Correlation Table
\* unchanged, sends nothing and leaves the transport as it is.
C13_DecodeErrorDropped ==
  [][DeliverData(Garbage) =>
       /\ emitted' = <<>> /\ sent' = <<>> /\ thrown' = Undefined
       /\ calls' = calls
       /\ responseHandlers' = responseHandlers
       /\ transport' = transport /\ wsState' = wsState]_vars

\* broken text was delivered on an open connection with a request pending
\* (with no action defined and nothing ignored, no other step leaves an open
\* connection without an event and without a transmission)
C13_Witness ==
  /\ transport /\ wsState = 1
  /\ emitted = <<>> /\ sent = <<>> /\ thrown = Undefined
  /\ actions = {} /\ ignoreEvents = {}
  /\ \E i \in 1..Len(calls) :
       calls[i].transmitted /\ getResponseHandler(This, calls[i].id) = i

\* C14 as stated: delivering a Response whose id is not in the Correlation
\* Table produces no event and no callback invocation and changes neither the
\* table, nor the id counter, nor the keepalive timers.
C14_UnknownIdNoEffect ==
  [][DataStep => \A f \in Responses :
       (Deliver(f) /\ f.id \notin DOMAIN responseHandlers) =>
         /\ emitted' = <<>>
         /\ calls' = calls
         /\ responseHandlers' = responseHandlers /\ lastId' = lastId
         /\ pingTimeout' = pingTimeout /\ pongs' = pongs]_vars

\* C14 amended: such a delivery emits the message event and no other event,
\* invokes no callback, sends nothing and changes neither the table, nor the
\* id counter, nor the probe timers; the idle timer is restarted when the
\* keepalive listener is registered and left as it is otherwise.
C14_UnknownIdOnlyMessage ==
  [][DataStep => \A f \in Responses :
       (Deliver(f) /\ f.id \notin DOMAIN responseHandlers) =>
         /\ Len(emitted') = 1 /\ emitted'[1].name = "message"
         /\ sent' = <<>>
         /\ calls' = calls
         /\ responseHandlers' = responseHandlers /\ lastId' = lastId
         /\ pongs' = pongs
         /\ pingTimeout' = (pingListener \/ pingTimeout)]_vars

\* a Response was delivered to an open connection with keepalive on that has
\* made no request: message is the only event and the idle timer is armed
C14_Witness ==
  /\ transport /\ wsState = 1 /\ pingListener
  /\ calls = <<>> /\ DOMAIN responseHandlers = {}
  /\ Len(emitted) = 1 /\ emitted[1].name = "message"
  /\ pingTimeout

\* ------------------------------------------------------------ outbound messages
\* C15: notify creates no Correlation Table entry and consumes no id: the
\* table, the id counter and every pending call are the same before and after
\* the call, and what it sends carries no id.
C15_NotifyLeavesTable ==
  [][Notify =>
       /\ responseHandlers' = responseHandlers
       /\ lastId' = lastId /\ autoIds' = autoIds
       /\ calls' = calls
       /\ \A k \in 1..Len(sent') : member(sent'[k], "id") = Undefined]_vars

\* a notification was handed to the transport while a request was pending
C15_Witness ==
  /\ sent = << << <<"method", "double">>, <<"payload", "p1">> >> >>
  /\ DOMAIN responseHandlers # {}
  /\ lastId > 0

\* an event without message object and serialized text
Event(name, payload) == [name |-> name, payload |-> payload, text |-> <<>>, obj |-> <<>>]

\* the send events of the last step, in order
SendEvents == SelectSeq(emitted, LAMBDA e : e.name = "send")

\* C16: the send events of a step are, one for one and in order, the messages
\* the step handed to transport.send, each carrying the message object and
\* its serialized text; so there is no send event for a message that was
\* not handed to the transport.
C16_SendEventPerMessage ==
  /\ Len(SendEvents) = Len(sent)
  /\ \A k \in 1..Len(sent) :
       /\ SendEvents[k].text = sent[k]
       /\ serialize(SendEvents[k].obj) = sent[k]

\* a request was handed to the transport and its send event emitted, by a
\* connection that has also made a request it could not hand to the transport
C16_Witness ==
  /\ Len(sent) = 1 /\ Len(emitted) = 1
  /\ emitted[1].name = "send" /\ emitted[1].text = sent[1]
  /\ member(sent[1], "id") # Undefined
  /\ \E i \in 1..Len(calls) : calls[i].id # Undefined /\ ~calls[i].transmitted

\* C17: respond(id, error, result) on an open connection transmits one
\* message, which carries the given id, no method and no payload, the error
\* alone when an error is supplied (also when a result is supplied with it)
\* and the result alone otherwise; on a connection that is not open it
\* transmits nothing.
C17_RespondErrorOrResult ==
  [][\A id \in ExplicitIds, error \in ErrVals, result \in ResVals :
       RespondWith(id, error, result) =>
         IF readyState(This) # 1 THEN sent' = <<>>
         ELSE /\ Len(sent') = 1
              /\ member(sent'[1], "id") = id
              /\ member(sent'[1], "method") = Undefined
              /\ member(sent'[1], "payload") = Undefined
              /\ member(sent'[1], "error") =
                   IF error \in {Null, Undefined} THEN Undefined ELSE error
              /\ member(sent'[1], "result") =
                   IF error \in {Null, Undefined} THEN result ELSE Undefined]_vars

\* a Response carrying an error and no result was handed to the transport
C17_Witness ==
  /\ sent = << << <<"error", "e1">>, <<"id", "0">> >> >>
  /\ Len(emitted) = 1 /\ emitted[1].name = "send"

\* the events under their own method name that the calls of batch give rise
\* to, in the order of the batch
MethodEvents(batch) ==
  LET broadcast == SelectSeq(batch, LAMBDA m : m.method # Undefined
                                               /\ m.method \notin ignoreEvents)
  IN  [k \in 1..Len(broadcast) |->
         Event(broadcast[k].method, broadcast[k].payload)]

\* batch holds a Response that finds call i in the Correlation Table
Answers(batch, i) ==
  \E k \in 1..Len(batch) :
    /\ batch[k].method = Undefined
    /\ getResponseHandler(This, batch[k].id) = i

\* what every step of onData on an array shows: its message event carries one
BatchStep == DataStep /\ emitted'[Len(emitted')].payload = "array"

\* C18: when a frame decodes to an array, every element is dispatched once
\* and in array order (the calls show as events in the order of the array,
\* a Response completes the request it finds in the table once, also when the
\* array repeats it), and message is emitted once, after all of them.
C18_BatchInOrder ==
  [][BatchStep => \A batch \in Batches : DeliverData(ArrayFrame(batch)) =>
       /\ emitted' = MethodEvents(batch)
                       \o <<Event("message", "array")>>
       /\ \A i \in 1..Len(calls) :
            Len(calls'[i].cbCalls) =
              Len(calls[i].cbCalls) + (IF Answers(batch, i) /\ calls[i].cb THEN 1 ELSE 0)
       /\ \A i \in 1..Len(calls) :
            Answers(batch, i) => getResponseHandler(This', calls[i].id) # i]_vars

\* an array of a move call and a double call was delivered: both events in
\* array order, then message
C18_Witness ==
  /\ Len(emitted) = 3
  /\ emitted[1].name = "move" /\ emitted[2].name = "double"
  /\ emitted[3].name = "message"

\* C19: an inbound Request or Notification delivered on its own is emitted
\* as an event under its method name, with its payload and before message,
\* when the method is not on the ignore-list, and gives rise to no event but
\* message when it is; and no step emits an event under a method name that
\* is on the ignore-list.
C19_BroadcastUnlessIgnored ==
  /\ [][(DataStep /\ ~BatchStep) => \A f \in InboundCalls : Deliver(f) =>
          emitted' =
            (IF f.method \in ignoreEvents THEN <<>>
             ELSE <<Event(f.method, f.payload)>>)
            \o <<Event("message", f.method)>>]_vars
  /\ [][\A k \in 1..Len(emitted') :
          emitted'[k].name \in Methods => emitted'[k].name \notin ignoreEvents]_vars

\* a double call was delivered while double was on the ignore-list: message
\* is the only event
C19_Witness ==
  /\ "double" \in ignoreEvents
  /\ emitted = <<Event("message", "double")>>

\* C20: when an inbound Request or Notification names a method for which
\* define registered an Action Handler, the delivery invokes that handler.
C20_InboundInvokesHandler ==
  [][(DataStep /\ ~BatchStep) => \A f \in InboundCalls :
       (Deliver(f) /\ f.method \in actions) => invoked' = <<f.method>>]_vars

\* ------------------------------------------------------------ failures
\* C21: when the message of a notify, request or respond call made on an
\* open connection does not serialize, the call returns the error to its
\* caller and hands nothing to the transport.
C21_SerializeErrorReturned ==
  [][readyState(This) = 1 =>
       /\ NotifyWith(Cyclic) => (returned' = StringifyError /\ sent' = <<>>)
       /\ (Len(calls) < MaxPending /\ RequestWith(Undefined, Cyclic, TRUE)) =>
            (returned' = StringifyError /\ sent' = <<>>)
       /\ \A id \in ExplicitIds : RespondWith(id, Undefined, Cyclic) =>
            (returned' = StringifyError /\ sent' = <<>>)]_vars

\* ------------------------------------------------------------ ordering
\* the connection is open and payload p serializes
Transmittable(p) == readyState(This) = 1 /\ p # Cyclic

\* the texts of a notification and of a request of method double
NotificationText(p) == << <<"method", "double">>, <<"payload", p>> >>
RequestTextWith(p, id) == << <<"method", "double">>, <<"payload", p>>, <<"id", id>> >>

\* C22: every notify, request, send and respond call hands its own message
\* to transport.send before it returns, as one whole message, or hands over
\* nothing at all; no step hands over more than one message.  So no message
\* is kept back to be sent by a later call, and the transport receives the
\* messages in the order of the calls, none overtaking and none merged.
C22_TransmittedInCallOrder ==
  /\ [][\A p \in Payloads : NotifyWith(p) =>
          sent' = IF Transmittable(p) THEN <<NotificationText(p)>> ELSE <<>>]_vars
  /\ [][\A p \in Payloads :
          (Len(calls) < MaxPending /\ RequestWith(Undefined, p, TRUE)) =>
            sent' = IF Transmittable(p)
                    THEN <<RequestTextWith(p, Digit(lastId))>> ELSE <<>>]_vars
  /\ [][\A p \in Payloads, cb \in BOOLEAN : SendWith(p, cb) =>
          sent' = IF ~Transmittable(p) THEN <<>>
                  ELSE IF cb THEN <<RequestTextWith(p, Digit(lastId))>>
                  ELSE <<NotificationText(p)>>]_vars
  /\ [][\A id \in ExplicitIds, error \in ErrVals, result \in ResVals \cup {Cyclic} :
          RespondWith(id, error, result) =>
            /\ Len(sent') <= 1
            /\ \A k \in 1..Len(sent') :
                 member(sent'[k], "id") = id /\ member(sent'[k], "method") = Undefined]_vars
  /\ [](Len(sent) <= 1)

\* the second request of the connection was handed to the transport by the
\* call that made it, after the first request had been handed over by its own
C22_Witness ==
  /\ sent = <<RequestTextWith("p1", "1")>>
  /\ Len(calls) = 2
  /\ calls[1].id = "0" /\ calls[1].transmitted
  /\ calls[2].id = "1" /\ calls[2].transmitted

\* ------------------------------------------------------------ liveness machine
\* C23: on a connection made by an open() call for which keepalive is falsy,
\* no ping is ever sent and no probe timer ever closes the connection, also
\* when an earlier open() of the same Client had keepalive on.
C23_NoLivenessWhenDisabled ==
  [][(transport /\ ~keepalive) =>
       /\ ~PingTimeout
       /\ \A idx \in 1..Len(calls) : ~PongTimeoutOf(idx)]_vars

\* ------------------------------------------------------------ odd frames
\* C24: delivering a frame raises no exception out of onData, whether its
\* text is broken, a single message, an array of messages, one of null, a
\* number and a string, or an array holding one of these.
C24_OnDataNeverThrows ==
  [][(\/ \E frame \in PendingResponses \cup InboundCalls : Deliver(frame)
      \/ \E batch \in Batches : DeliverData(ArrayFrame(batch))
      \/ DeliverData(Garbage)
      \/ \E type \in Scalars : DeliverData(ScalarFrame(type))
      \/ \E frame \in MixedFrames : DeliverData(frame)
      \/ \E frame \in InvalidMessages \cup EmptyResponses : Deliver(frame))
     => thrown' = Undefined]_vars

\* C29: a message that carries a method together with a result or an error
\* is rejected: its delivery emits no event under its method name, leaves
\* the calls and the Correlation Table as they are, and leaves the
\* connection open.
C29_MethodWithResultRejected ==
  [][(DataStep /\ ~BatchStep) => \A f \in InvalidMessages : Deliver(f) =>
       /\ \A k \in 1..Len(emitted') : emitted'[k].name # f.method
       /\ calls' = calls
       /\ responseHandlers' = responseHandlers
       /\ transport' = transport /\ wsState' = wsState]_vars

\* C25: while the connection is open with keepalive nonzero, the delivery of
\* any message (a call, or a Response that finds or does not find a pending
\* request) leaves the idle timer armed anew.
C25_TrafficRestartsIdleTimer ==
  [][(transport /\ wsState = 1 /\ keepalive) =>
       \A f \in Frames \cup EventNamedCalls : Deliver(f) => pingTimeout']_vars

\* C26: when the transport of a connection opened with keepalive nonzero
\* reports open, the idle timer is armed, so that a ping is sent after the
\* keepalive interval even if no frame is ever delivered.
C26_ArmedOnOpen ==
  [][(TransportOpen /\ keepalive) => pingTimeout']_vars

\* C27: at most one keepalive timer is armed: never the idle timer together
\* with a probe timer, and never two probe timers.
C27_OneTimerArmed ==
  /\ ~(pingTimeout /\ pongs # {})
  /\ Cardinality(pongs) <= 1

\* C28: after a close event no keepalive timer is armed, so that no ping is
\* sent and no probe timer calls close() until the connection is open again.
C28_NoTimerAfterClose ==
  /\ [][Emitted("close") => (~pingTimeout' /\ pongs' = {})]_vars
  /\ [][(~transport \/ wsState # 1) =>
          (~PingTimeout /\ \A idx \in 1..Len(calls) : ~PongTimeoutOf(idx))]_vars

\* ------------------------------------------------------------ empty responses
\* C30 as stated: a Response that carries the id of a pending request and
\* neither result nor error removes the entry of the request and does nothing
\* else: no callback is invoked and no promise is settled.
C30_EmptyResponseOnlyClears ==
  [][(DataStep /\ ~BatchStep) => \A f \in EmptyResponses :
       (Deliver(f) /\ f.id \in DOMAIN responseHandlers) =>
         /\ f.id \notin DOMAIN responseHandlers'
         /\ calls' = calls]_vars

\* C30 amended: such a Response removes the entry and completes the request
\* as a success without result: the callback of the request, if it has one,
\* is invoked once with (undefined, undefined), its promise, if it has one,
\* is resolved with undefined, no other call is touched, nothing is sent and
\* message is the only event.
C30_EmptyResponseCompletes ==
  [][(DataStep /\ ~BatchStep) => \A f \in EmptyResponses :
       (Deliver(f) /\ f.id \in DOMAIN responseHandlers) =>
         LET i == responseHandlers[f.id]
         IN  /\ f.id \notin DOMAIN responseHandlers'
             /\ calls'[i].cbCalls =
                  IF calls[i].cb THEN Append(calls[i].cbCalls, <<Undefined, Undefined>>)
                  ELSE calls[i].cbCalls
             /\ calls[i].fut = "pending" =>
                  calls'[i].fut = "resolved" /\ calls'[i].futVal = Undefined
             /\ \A j \in 1..Len(calls) : j # i => calls'[j] = calls[j]
             /\ sent' = <<>>
             /\ emitted' = <<Event("message", "response")>>]_vars

\* a transmitted request was completed by an empty Response: its callback
\* was invoked with (undefined, undefined), its promise resolved with
\* undefined, and its entry is gone
C30_Witness ==
  /\ emitted = <<Event("message", "response")>>
  /\ \E i \in 1..Len(calls) :
       /\ calls[i].transmitted
       /\ calls[i].cbCalls = <<<<Undefined, Undefined>>>>
       /\ calls[i].fut = "resolved" /\ calls[i].futVal = Undefined
       /\ calls[i].id \notin DOMAIN responseHandlers

\* ------------------------------------------------------------ lifecycle events
CloseEvents == SelectSeq(emitted', LAMBDA e : e.name = "close")

\* C31: a step that takes the connection from open to closing or closed
\* emits close exactly once, and no step of a connection that is already
\* closing or closed (close() called again, the transport reporting the close
\* that close() started) emits a further close.
C31_CloseEmittedOnce ==
  /\ [][(transport /\ wsState = 1 /\ wsState' \in {2, 3}) => Len(CloseEvents) = 1]_vars
  /\ [][(transport /\ wsState \in {2, 3} /\ wsState' \in {2, 3}) =>
          Len(CloseEvents) = 0]_vars

\* C32: every entry of the Correlation Table belongs to a request whose
\* message was handed to the transport.
C32_EntriesWereTransmitted ==
  \A id \in DOMAIN responseHandlers : calls[responseHandlers[id]].transmitted

\* C33: the delivery of a message, whatever its method, emits none of the
\* events open, close and error.
C33_NoLifecycleEventFromMessage ==
  [][DataStep => \A f \in Frames \cup EventNamedCalls : Deliver(f) =>
       \A k \in 1..Len(emitted') : emitted'[k].name \notin {"open", "close", "error"}]_vars

\* ------------------------------------------------------------ Arm
\* call idx was made with the name of a command of the table other than
\* stop and with a time above 0
TimedCommand(idx) ==
  /\ idx <= Len(armCalls)
  /\ ~armCalls[idx].cmd.array
  /\ armCalls[idx].cmd.name \in DOMAIN commands \ {"stop"}
  /\ armCalls[idx].t > 0

\* C34: after exec of a known command other than stop with a time above 0,
\* the timer of the call is armed; the timer eventually fires, and the step
\* in which it fires hands the stop buffer, and nothing else, to the device
\* and leaves no timer armed for the call; so every such call ends with its
\* stop issued and its timer gone.
C34_StopIssuedAndChainEnds ==
  /\ [][\A cmd \in ArmCommands, t \in ArmTimes :
          (ArmExecWith(cmd, t) /\ TimedCommand(Len(armCalls'))) =>
            /\ armTransfers' = <<commands[cmd.name]>>
            /\ Len(armCalls') \in armTimers']_vars
  /\ [][\A idx \in 1..MaxArmCalls : ArmTimeoutOf(idx) =>
          /\ armTransfers' = <<commands["stop"]>>
          /\ idx \in armStops'
          /\ armTimers' = armTimers \ {idx}]_vars
  /\ \A idx \in 1..MaxArmCalls :
       TimedCommand(idx) ~> (idx \in armStops /\ idx \notin armTimers)

\* the timer of a light-off call, whose buffer has the bytes of stop, has
\* fired and issued its stop, and no timer is left
C34_Witness ==
  /\ \E idx \in 1..Len(armCalls) :
       /\ armCalls[idx].cmd = Named("light-off")
       /\ idx \in armStops
  /\ armTimers = {}
  /\ armTransfers = <<commands["stop"]>>

====
